---- MODULE Spec2Model ----
(***************************************************************************)
(* Model of ndarray's array formatting (src/src/arrayformat.rs).           *)
(*                                                                         *)
(* The renderer is modelled as a small-step machine with an explicit call  *)
(* stack: every write to the sink and every call of the element formatter  *)
(* is one step that may succeed or fail, and the `?` operator pops the     *)
(* frame that sees the failure.  The sink is a sequence of text units:     *)
(* one unit per character of the literals the code writes, and one unit    *)
(* for each value formatted by code outside this file (the text the        *)
(* element formatter produces for the element at multi-index ix is the     *)
(* unit ElemTok(ix)).  usize is scaled down to 0..UsizeMax.                *)
(***************************************************************************)
EXTENDS Integers, Sequences, FiniteSets, TLC

VARIABLES
    entry,      \* the function called at the top level
    shape,      \* the shape of the view handed to the top-level call
    limit,      \* the `limit` argument threaded through every call
    checks,     \* TRUE: the build has overflow checks (debug), FALSE: it wraps
    flavor,     \* the formatting trait whose `fmt` is the element formatter
    ndimConst,  \* TRUE iff D::NDIM is Some(_) (statically fixed rank)
    stack,      \* call stack, innermost frame last
    ret,        \* value returned by the frame popped last ("none": running)
    sink,       \* text units written to the fmt::Formatter so far
    calls,      \* multi-indices the element formatter was invoked on, in order
    failed,     \* some sink write or formatter call has returned Err
    late,       \* a write or formatter call was made after the first failure
    fault,      \* the panic that ended the call ("none" if none)
    wrapped     \* some usize operation overflowed and wrapped around

vars == <<entry, shape, limit, checks, flavor, ndimConst, stack, ret, sink,
          calls, failed, late, fault, wrapped>>

----------------------------------------------------------------------------
(* Bounds of the model *)

MaxRank == 3
MaxLen == 7
MaxSize == 49
FmtMaxRank == 2
FmtMaxLen == 7
FmtMaxSize == 8
LimMaxRank == 3
LimMaxLen == 4
LimMaxSize == 9
UsizeMax == 15

PRINT_ELEMENTS_LIMIT == 3

Flavors == {"Display", "Debug", "LowerExp", "UpperExp", "LowerHex", "Binary"}

----------------------------------------------------------------------------
(* Helpers on sequences *)

RECURSIVE Product(_)
Product(s) == IF s = <<>> THEN 1 ELSE Head(s) * Product(Tail(s))

Shapes(maxRank, maxLen, maxSize) ==
    { s \in UNION { [1..r -> 0..maxLen] : r \in 0..maxRank } : Product(s) <= maxSize }

Rep(tok, n) == [i \in 1..n |-> tok]

RECURSIVE Concat(_)
Concat(ps) == IF ps = <<>> THEN <<>> ELSE Head(ps) \o Concat(Tail(ps))

IsPrefix(s, t) == Len(s) <= Len(t) /\ SubSeq(t, 1, Len(s)) = s

----------------------------------------------------------------------------
(* Units of the output text *)

Ch(c) == [t |-> c, ix |-> <<>>]
Chars(s) == [k \in 1..Len(s) |-> Ch(s[k])]
ElemTok(ix) == [t |-> flavor, ix |-> ix]

\* the literals of lines 28, 34, 37, 40, 101, 110, 113, 116
LBRACKET == Chars(<<"[">>)
RBRACKET == Chars(<<"]">>)
ELEM_SEP == Chars(<<",", " ">>)
ELEM_ELLIPSES == Chars(<<".", ".", ".", ",", " ">>)
\* mutant: one more space of indentation per nesting level
SLICE_SEP_indented == Chars(<<",", "\n">>) \o [k \in 1..(Len(stack) - 1) |-> Ch(" ")]
SLICE_SEP == Chars(<<",", "\n", " ">>)
SLICE_ELLIPSES == Chars(<<".", ".", ".", ",", "\n", " ">>)

----------------------------------------------------------------------------
(* PrintableCell and the truncation planner *)

ElementIndex(i) == [kind |-> "ElementIndex", i |-> i]
Ellipses == [kind |-> "Ellipses", i |-> 0]

\* a..b-1 mapped to ElementIndex, as `(a..b).map(PrintableCell::ElementIndex)`
IndexRange(a, b) == [k \in 1..(IF b > a THEN b - a ELSE 0) |-> ElementIndex(a + k - 1)]

Wrap(n) == n % (UsizeMax + 1)

\* mutant: `<` for `<=` in the test against 2 * limit
to_be_printed_strict(length, lim) ==
    IF length < Wrap(2 * lim)
    THEN [overflow |-> 2 * lim > UsizeMax, cells |-> IndexRange(0, length)]
    ELSE [overflow |-> 2 * lim > UsizeMax \/ length < lim,
          cells |-> IndexRange(0, lim) \o <<Ellipses>>
                    \o IndexRange(Wrap(length - lim), length)]

\* mutant: the tail starts one index late, limit - 1 trailing cells
to_be_printed_short_tail(length, lim) ==
    IF length <= Wrap(2 * lim)
    THEN [overflow |-> 2 * lim > UsizeMax, cells |-> IndexRange(0, length)]
    ELSE [overflow |-> 2 * lim > UsizeMax \/ length < lim,
          cells |-> IndexRange(0, lim) \o <<Ellipses>>
                    \o IndexRange(Wrap(length - lim) + 1, length)]

\* mutant: the tail is shifted by one, its last index is `length`
to_be_printed_past_end(length, lim) ==
    IF length <= Wrap(2 * lim)
    THEN [overflow |-> 2 * lim > UsizeMax, cells |-> IndexRange(0, length)]
    ELSE [overflow |-> 2 * lim > UsizeMax \/ length < lim,
          cells |-> IndexRange(0, lim) \o <<Ellipses>>
                    \o IndexRange(Wrap(length - lim) + 1, length + 1)]

\* overflow: `2 * limit` or `length - limit` left 0..UsizeMax (a panic in a
\* build with overflow checks); cells: the value computed with wrapping
to_be_printed(length, lim) ==
    IF length <= Wrap(2 * lim)
    THEN [overflow |-> 2 * lim > UsizeMax, cells |-> IndexRange(0, length)]
    ELSE [overflow |-> 2 * lim > UsizeMax \/ length < lim,
          cells |-> IndexRange(0, lim) \o <<Ellipses>>
                    \o IndexRange(Wrap(length - lim), length)]

----------------------------------------------------------------------------
(* Frames *)

Frame(fn, view) == [fn |-> fn, view |-> view, pc |-> "start", cells |-> <<>>, j |-> 0]

top == stack[Len(stack)]
Pop == SubSeq(stack, 1, Len(stack) - 1)
SetTop(f) == [stack EXCEPT ![Len(stack)] = f]

\* the shape of the view a frame works on: the leading axes are fixed
ViewShape(view) == SubSeq(shape, Len(view) + 1, Len(shape))

Running(fn, pc) ==
    /\ stack # <<>>
    /\ ret = "none"
    /\ top.fn = fn
    /\ top.pc = pc

Returned(fn, pc) ==
    /\ stack # <<>>
    /\ ret \in {"Ok", "Err"}
    /\ top.fn = fn
    /\ top.pc = pc

----------------------------------------------------------------------------
(* Fallible operations: a write!() of several pieces and a formatter call *)

\* write!(f, ...) hands its pieces to the sink one by one and stops at the
\* first refusal: Ok with every piece written, or Err after k < n pieces.
WriteOutcomes(pieces) ==
    {[r |-> "Ok", out |-> Concat(pieces)]}
    \cup {[r |-> "Err", out |-> Concat(SubSeq(pieces, 1, k))] : k \in 0..(Len(pieces) - 1)}

\* format(&elem, f): the element's text, or a failure
FormatOutcomes(ix) ==
    {[r |-> "Ok", out |-> <<ElemTok(ix)>>], [r |-> "Err", out |-> <<>>]}

\* mutant: the result is dropped instead of propagated
Propagates_never(r) == FALSE

\* the `?` operator: an Err leaves the function at once
Propagates(r) == r = "Err"

\* `n_to_be_printed - 1` in usize
LastIndex(n) == Wrap(n - 1)

\* mutant: `j != n_to_be_printed`, a separator after every element
SepNeeded_always(j, n) == j # n

\* `j != n_to_be_printed - 1`
SepNeeded(j, n) == j # LastIndex(n)

Effect(o) ==
    /\ sink' = sink \o o.out
    /\ late' = (late \/ failed)
    /\ failed' = (failed \/ o.r = "Err")

NoEffect == UNCHANGED <<sink, late, failed>>

Static == UNCHANGED <<entry, shape, limit, checks, flavor, ndimConst>>

ReturnWith(r) == stack' = Pop /\ ret' = r /\ UNCHANGED <<fault, wrapped>>

Continue(f) == stack' = SetTop(f) /\ ret' = "none" /\ UNCHANGED <<fault, wrapped>>

PanicWith(kind) == stack' = <<>> /\ ret' = "Panic" /\ fault' = kind /\ UNCHANGED wrapped


\* `n_to_be_printed - 1` with n_to_be_printed = 0: a panic in a build with
\* overflow checks; without them it wraps to UsizeMax, which no j equals
Underflow(f) ==
    /\ NoEffect
    /\ IF checks
       THEN PanicWith("overflow")
       ELSE stack' = SetTop(f) /\ ret' = "none" /\ fault' = fault /\ wrapped' = TRUE

Try(o, f) == IF Propagates(o.r) THEN ReturnWith("Err") ELSE Continue(f)

TryReturn(o) == IF Propagates(o.r) THEN ReturnWith("Err") ELSE ReturnWith("Ok")

----------------------------------------------------------------------------
(* format_1d_array *)

\* lines 24-28: plan the axis, write "["
OneDOpen ==
    /\ Running("format_1d_array", "start")
    /\ LET plan == to_be_printed(Product(ViewShape(top.view)), limit) IN
       IF plan.overflow /\ checks
       THEN PanicWith("overflow") /\ NoEffect
       ELSE \E o \in WriteOutcomes(<<LBRACKET>>) :
              /\ Effect(o)
              /\ wrapped' = (wrapped \/ plan.overflow)
              /\ fault' = fault
              /\ IF Propagates(o.r)
                 THEN stack' = Pop /\ ret' = "Err"
                 ELSE stack' = SetTop([top EXCEPT !.pc = "loop", !.cells = plan.cells])
                      /\ ret' = "none"
    /\ UNCHANGED calls
    /\ Static

\* lines 31-32: ElementIndex(i): format(&view[i], f)?
OneDElement ==
    /\ Running("format_1d_array", "loop")
    /\ top.j < Len(top.cells)
    /\ LET cell == top.cells[top.j + 1] IN
       /\ cell.kind = "ElementIndex"
       /\ IF cell.i >= Product(ViewShape(top.view))
          THEN PanicWith("index") /\ NoEffect /\ UNCHANGED calls
          ELSE \E o \in FormatOutcomes(top.view \o <<cell.i>>) :
                 /\ Effect(o)
                 /\ calls' = Append(calls, top.view \o <<cell.i>>)
                 /\ Try(o, [top EXCEPT !.pc = "sep"])
    /\ Static

\* lines 33-35: the separator after an element that is not the last cell
OneDSeparator ==
    /\ Running("format_1d_array", "sep")
    /\ LET n == Len(top.cells)
           next == [top EXCEPT !.pc = "loop", !.j = @ + 1] IN
       IF n = 0
       THEN Underflow(next)
       ELSE IF SepNeeded(top.j, n)
       THEN \E o \in WriteOutcomes(<<ELEM_SEP>>) : Effect(o) /\ Try(o, next)
       ELSE NoEffect /\ Continue(next)
    /\ UNCHANGED calls
    /\ Static

\* line 37: Ellipses => write!(f, "..., ")?
OneDEllipses ==
    /\ Running("format_1d_array", "loop")
    /\ top.j < Len(top.cells)
    /\ top.cells[top.j + 1].kind = "Ellipses"
    /\ \E o \in WriteOutcomes(<<ELEM_ELLIPSES>>) :
         /\ Effect(o)
         /\ Try(o, [top EXCEPT !.j = @ + 1])
    /\ UNCHANGED calls
    /\ Static

\* lines 40-41: write "]" and return Ok(())
OneDClose ==
    /\ Running("format_1d_array", "loop")
    /\ top.j >= Len(top.cells)
    /\ \E o \in WriteOutcomes(<<RBRACKET>>) : Effect(o) /\ TryReturn(o)
    /\ UNCHANGED calls
    /\ Static

----------------------------------------------------------------------------
(* format_array *)

\* mutant: only the leading axis is tested
HasZeroAxis_first(s) == Len(s) >= 1 /\ s[1] = 0

\* mutant: `all` for `any`
HasZeroAxis_all(s) == \A k \in 1..Len(s) : s[k] = 0

\* line 76: view.shape().iter().any(|&x| x == 0)
HasZeroAxis(s) == \E k \in 1..Len(s) : s[k] = 0

\* lines 76-79: some axis has length 0
ArrayEmpty ==
    /\ Running("format_array", "start")
    /\ LET s == ViewShape(top.view) IN
       /\ HasZeroAxis(s)
       /\ \E o \in WriteOutcomes(<<Rep(Ch("["), Len(s)), Rep(Ch("]"), Len(s))>>) :
            Effect(o) /\ TryReturn(o)
    /\ UNCHANGED calls
    /\ Static

\* line 82: rank 0, format the sole element
ArrayScalar ==
    /\ Running("format_array", "start")
    /\ ViewShape(top.view) = <<>>
    /\ ~HasZeroAxis(ViewShape(top.view))
    /\ \E o \in FormatOutcomes(top.view) :
         /\ Effect(o)
         /\ calls' = Append(calls, top.view)
         /\ TryReturn(o)
    /\ Static

\* lines 84-89: rank 1, call format_1d_array
ArrayDelegate ==
    /\ Running("format_array", "start")
    /\ LET s == ViewShape(top.view) IN
       /\ Len(s) = 1
       /\ ~HasZeroAxis(s)
    /\ stack' = SetTop([top EXCEPT !.pc = "delegated"])
                \o <<Frame("format_1d_array", top.view)>>
    /\ UNCHANGED <<ret, fault, wrapped, calls>>
    /\ NoEffect
    /\ Static

\* line 89: the `?` on format_1d_array's result, then Ok(()) (line 119)
ArrayDelegateReturned ==
    /\ Returned("format_array", "delegated")
    /\ IF Propagates(ret) THEN ReturnWith("Err") ELSE ReturnWith("Ok")
    /\ UNCHANGED calls
    /\ NoEffect
    /\ Static

\* lines 91-101: rank >= 2, plan the leading axis, write "["
ArrayOpen ==
    /\ Running("format_array", "start")
    /\ LET s == ViewShape(top.view) IN
       /\ Len(s) >= 2
       /\ ~HasZeroAxis(s)
       /\ LET plan == to_be_printed(s[1], limit) IN
          IF plan.overflow /\ checks
          THEN PanicWith("overflow") /\ NoEffect
          ELSE \E o \in WriteOutcomes(<<LBRACKET>>) :
                 /\ Effect(o)
                 /\ wrapped' = (wrapped \/ plan.overflow)
                 /\ fault' = fault
                 /\ IF Propagates(o.r)
                    THEN stack' = Pop /\ ret' = "Err"
                    ELSE stack' = SetTop([top EXCEPT !.pc = "loop", !.cells = plan.cells])
                         /\ ret' = "none"
    /\ UNCHANGED calls
    /\ Static

\* lines 104-106: ElementIndex(i): recurse into index_axis(Axis(0), i)
ArrayRecurse ==
    /\ Running("format_array", "loop")
    /\ top.j < Len(top.cells)
    /\ LET cell == top.cells[top.j + 1] IN
       /\ cell.kind = "ElementIndex"
       /\ IF cell.i >= ViewShape(top.view)[1]
          THEN PanicWith("index")
          ELSE /\ stack' = SetTop([top EXCEPT !.pc = "recursed"])
                           \o <<Frame("format_array", top.view \o <<cell.i>>)>>
               /\ UNCHANGED <<ret, fault, wrapped>>
    /\ UNCHANGED calls
    /\ NoEffect
    /\ Static

\* lines 106-111: the `?` on the recursive call, then the separator
ArrayAfterSlice ==
    /\ Returned("format_array", "recursed")
    /\ LET n == Len(top.cells)
           next == [top EXCEPT !.pc = "loop", !.j = @ + 1] IN
       IF Propagates(ret)
       THEN ReturnWith("Err") /\ NoEffect
       ELSE IF n = 0
       THEN Underflow(next)
       ELSE IF SepNeeded(top.j, n)
       THEN \E o \in WriteOutcomes(<<SLICE_SEP>>) : Effect(o) /\ Try(o, next)
       ELSE NoEffect /\ Continue(next)
    /\ UNCHANGED calls
    /\ Static

\* line 113: Ellipses => write!(f, "...,\n ")?
ArrayEllipses ==
    /\ Running("format_array", "loop")
    /\ top.j < Len(top.cells)
    /\ top.cells[top.j + 1].kind = "Ellipses"
    /\ \E o \in WriteOutcomes(<<SLICE_ELLIPSES>>) :
         /\ Effect(o)
         /\ Try(o, [top EXCEPT !.j = @ + 1])
    /\ UNCHANGED calls
    /\ Static

\* lines 116-119: write "]" and return Ok(())
ArrayClose ==
    /\ Running("format_array", "loop")
    /\ top.j >= Len(top.cells)
    /\ \E o \in WriteOutcomes(<<RBRACKET>>) : Effect(o) /\ TryReturn(o)
    /\ UNCHANGED calls
    /\ Static

----------------------------------------------------------------------------
(* The fmt trait implementations *)

\* lines 147-154: " shape={:?}, strides={:?}, layout={:?}"; the strides and
\* the layout are the array's own, not modelled
SuffixPieces ==
    << <<[t |-> " shape=", ix |-> shape]>>,
       <<[t |-> ", strides=", ix |-> <<>>]>>,
       <<[t |-> ", layout=", ix |-> <<>>]>> >>

\* mutant: the dynamic wording whatever D::NDIM is
NdimPiece_dynamic == <<[t |-> ", dynamic ndim=", ix |-> <<Len(shape)>>]>>

\* lines 155-158: ", const ndim={}" if D::NDIM is Some(ndim), else
\* ", dynamic ndim={}" with self.ndim()
NdimPiece ==
    <<[t |-> IF ndimConst THEN ", const ndim=" ELSE ", dynamic ndim=",
       ix |-> <<Len(shape)>>]>>

\* lines 132, 146, 171, 183, 194, 206: call format_array on self
FmtCall ==
    /\ Running("fmt", "start")
    /\ stack' = SetTop([top EXCEPT !.pc = "called"]) \o <<Frame("format_array", <<>>)>>
    /\ UNCHANGED <<ret, fault, wrapped, calls>>
    /\ NoEffect
    /\ Static

\* Display, LowerExp, UpperExp, LowerHex, Binary: format_array's result is fmt's
FmtReturn ==
    /\ Returned("fmt", "called")
    /\ flavor # "Debug"
    /\ ReturnWith(ret)
    /\ UNCHANGED calls
    /\ NoEffect
    /\ Static

\* lines 146-154 (Debug): the `?` on format_array, then shape, strides, layout
DebugSuffix ==
    /\ Returned("fmt", "called")
    /\ flavor = "Debug"
    /\ IF Propagates(ret)
       THEN ReturnWith("Err") /\ NoEffect
       ELSE \E o \in WriteOutcomes(SuffixPieces) :
              /\ Effect(o)
              /\ Try(o, [top EXCEPT !.pc = "ndim"])
    /\ UNCHANGED calls
    /\ Static

\* lines 155-159 (Debug): const or dynamic ndim, then Ok(())
DebugNdim ==
    /\ Running("fmt", "ndim")
    /\ \E o \in WriteOutcomes(<<NdimPiece>>) : Effect(o) /\ TryReturn(o)
    /\ UNCHANGED calls
    /\ Static

----------------------------------------------------------------------------
(* Specifications *)

Start(frame) ==
    /\ entry = frame.fn
    /\ stack = <<frame>>
    /\ ret = "none"
    /\ sink = <<>>
    /\ calls = <<>>
    /\ failed = FALSE
    /\ late = FALSE
    /\ fault = "none"
    /\ wrapped = FALSE

NextEngine ==
    \/ OneDOpen \/ OneDElement \/ OneDSeparator \/ OneDEllipses \/ OneDClose
    \/ ArrayEmpty \/ ArrayScalar \/ ArrayDelegate \/ ArrayDelegateReturned
    \/ ArrayOpen \/ ArrayRecurse \/ ArrayAfterSlice \/ ArrayEllipses \/ ArrayClose

\* Display::fmt of a view, with the program's limit (with it nothing
\* overflows, so the two kinds of build do not differ)
Init ==
    /\ shape \in Shapes(MaxRank, MaxLen, MaxSize)
    /\ limit = PRINT_ELEMENTS_LIMIT
    /\ checks = TRUE
    /\ flavor = "Display"
    /\ ndimConst = TRUE
    /\ Start(Frame("fmt", <<>>))

Next == NextEngine \/ FmtCall \/ FmtReturn

Spec == Init /\ [][Next]_vars

\* every flavor, with the program's limit
InitFmt ==
    /\ shape \in Shapes(FmtMaxRank, FmtMaxLen, FmtMaxSize)
    /\ limit = PRINT_ELEMENTS_LIMIT
    /\ checks = TRUE
    /\ flavor \in Flavors
    /\ ndimConst \in BOOLEAN
    /\ Start(Frame("fmt", <<>>))

NextFmt == Next \/ DebugSuffix \/ DebugNdim

SpecFmt == InitFmt /\ [][NextFmt]_vars

\* format_array and format_1d_array called with any limit on any axis length
InitLimit ==
    /\ limit \in 0..UsizeMax
    /\ checks \in BOOLEAN
    /\ flavor = "Display"
    /\ ndimConst = TRUE
    /\ \E fn \in {"format_array", "format_1d_array"} :
         /\ shape \in Shapes(LimMaxRank, LimMaxLen, LimMaxSize) \cup [1..1 -> 0..UsizeMax]
         /\ fn = "format_1d_array" => Len(shape) = 1
         /\ Start(Frame(fn, <<>>))

SpecLimit == InitLimit /\ [][NextEngine]_vars

----------------------------------------------------------------------------
(* The renderers as functions: the text of a run in which nothing fails *)

RECURSIVE format_1d_cells(_, _, _)
format_1d_cells(view, cells, j) ==
    IF j >= Len(cells) THEN <<>>
    ELSE LET cell == cells[j + 1] IN
         (IF cell.kind = "ElementIndex"
          THEN <<ElemTok(view \o <<cell.i>>)>>
               \o (IF SepNeeded(j, Len(cells)) THEN ELEM_SEP ELSE <<>>)
          ELSE ELEM_ELLIPSES)
         \o format_1d_cells(view, cells, j + 1)

format_1d_array(view) ==
    LBRACKET
    \o format_1d_cells(view, to_be_printed(Product(ViewShape(view)), limit).cells, 0)
    \o RBRACKET

RECURSIVE format_array(_)
RECURSIVE format_slices(_, _, _)
format_slices(view, cells, j) ==
    IF j >= Len(cells) THEN <<>>
    ELSE LET cell == cells[j + 1] IN
         (IF cell.kind = "ElementIndex"
          THEN format_array(view \o <<cell.i>>)
               \o (IF SepNeeded(j, Len(cells)) THEN SLICE_SEP ELSE <<>>)
          ELSE SLICE_ELLIPSES)
         \o format_slices(view, cells, j + 1)

format_array(view) ==
    LET s == ViewShape(view) IN
    IF HasZeroAxis(s) THEN Rep(Ch("["), Len(s)) \o Rep(Ch("]"), Len(s))
    ELSE IF s = <<>> THEN <<ElemTok(view)>>
    ELSE IF Len(s) = 1 THEN format_1d_array(view)
    ELSE LBRACKET \o format_slices(view, to_be_printed(s[1], limit).cells, 0) \o RBRACKET

----------------------------------------------------------------------------
(* Vocabulary of the properties *)

Done == stack = <<>>
Succeeded == Done /\ ret = "Ok"
K == PRINT_ELEMENTS_LIMIT
Rank == Len(shape)
NoZeroAxis == \A k \in 1..Len(shape) : shape[k] >= 1
Min(a, b) == IF a <= b THEN a ELSE b

\* frames whose cell list has been planned, and the axis it was planned for
Planned(f) == f.fn \in {"format_array", "format_1d_array"} /\ f.pc \in {"loop", "sep", "recursed"}
AxisLen(f) == ViewShape(f.view)[1]
PlannedFrames == {k \in 1..Len(stack) : Planned(stack[k])}

RECURSIVE Join(_, _)
Join(parts, sep) ==
    IF parts = <<>> THEN <<>>
    ELSE IF Len(parts) = 1 THEN parts[1]
    ELSE parts[1] \o sep \o Join(Tail(parts), sep)

RECURSIVE DepthAt(_, _)
DepthAt(s, p) ==
    IF p = 0 THEN 0
    ELSE DepthAt(s, p - 1)
         + (IF s[p].t = "[" THEN 1 ELSE IF s[p].t = "]" THEN -1 ELSE 0)

At(p) == IF p >= 1 /\ p <= Len(sink) THEN sink[p].t ELSE "none"

RECURSIVE LexLess(_, _)
LexLess(a, b) ==
    /\ a # <<>>
    /\ b # <<>>
    /\ \/ Head(a) < Head(b)
       \/ Head(a) = Head(b) /\ LexLess(Tail(a), Tail(b))

----------------------------------------------------------------------------
(* C1 *)

\* the cells claim C1 lists for an axis of length L
C1_Cells(L) ==
    IF L <= 2 * K
    THEN [k \in 1..L |-> ElementIndex(k - 1)]
    ELSE [k \in 1..(2 * K + 1) |->
            IF k <= K THEN ElementIndex(k - 1)
            ELSE IF k = K + 1 THEN Ellipses
            ELSE ElementIndex(L - K + (k - K - 2))]

\* C1: with limit 3, to_be_printed(L, 3) is ElementIndex(0..L-1) in ascending
\* order (empty for L = 0) if L <= 6, and otherwise the 7 cells
\* ElementIndex(0..2), one Ellipses, ElementIndex(L-3..L-1).
C1_PlannerCells ==
    limit = K =>
        \A k \in PlannedFrames : stack[k].cells = C1_Cells(AxisLen(stack[k]))

C1_Witness ==
    /\ limit = K
    /\ \E k \in PlannedFrames :
         /\ AxisLen(stack[k]) > 2 * K + 1
         /\ Len(stack[k].cells) = 2 * K + 1

----------------------------------------------------------------------------
(* C2 *)

C2_Text == Rep(Ch("["), Rank) \o Rep(Ch("]"), Rank)

\* C2: format_array on a view of rank r >= 1 with a zero-length axis writes
\* r "[" then r "]" and nothing else, never calls the element formatter and
\* returns Ok (unless the sink refuses a write), whatever the other axes and
\* the limit are.
C2_ZeroAxis ==
    (entry = "format_array" /\ Rank >= 1 /\ ~NoZeroAxis) =>
        /\ calls = <<>>
        /\ fault = "none"
        /\ IsPrefix(sink, C2_Text)
        /\ Done => (ret = "Ok" <=> ~failed)
        /\ Succeeded => sink = C2_Text

C2_Witness ==
    /\ entry = "format_array"
    /\ shape = <<3, 0, 4>>
    /\ limit > UsizeMax \div 2
    /\ Succeeded
    /\ sink = Chars(<<"[", "[", "[", "]", "]", "]">>)

----------------------------------------------------------------------------
(* C3 *)

C3_Sep == Chars(<<",", " ">>)

\* the text claim C3 gives for the rank-1 view with the leading indices `view`
\* fixed and L elements
C3_RowText(view, L) ==
    LET e(i) == <<ElemTok(view \o <<i>>)>> IN
    Chars(<<"[">>)
    \o (IF L <= 2 * K
        THEN Join([k \in 1..L |-> e(k - 1)], C3_Sep)
        ELSE Join([k \in 1..K |-> e(k - 1)], C3_Sep)
             \o Chars(<<",", " ", ".", ".", ".">>)
             \o Concat([k \in 1..K |-> C3_Sep \o e(L - K + k - 1)]))
    \o Chars(<<"]">>)

\* C3: a rank-1 view of length L >= 1 renders as "[" body "]": the elements
\* joined by ", " if L <= 6, else "e0, e1, e2, ..., e(L-3), e(L-2), e(L-1)";
\* no ", " immediately precedes the closing "]".
C3_Rank1Text ==
    (Rank = 1 /\ NoZeroAxis /\ Succeeded) =>
        /\ sink = C3_RowText(<<>>, shape[1])
        /\ ~(At(Len(sink) - 2) = "," /\ At(Len(sink) - 1) = " ")

C3_Witness == Rank = 1 /\ shape[1] > 2 * K /\ Succeeded

----------------------------------------------------------------------------
(* C4 *)

C4_Sep == Chars(<<",", "\n", " ">>)

C4_Text(R, C) ==
    LET row(i) == C3_RowText(<<i>>, C) IN
    Chars(<<"[">>)
    \o (IF R <= 2 * K
        THEN Join([k \in 1..R |-> row(k - 1)], C4_Sep)
        ELSE Concat([k \in 1..K |-> row(k - 1) \o C4_Sep])
             \o Chars(<<".", ".", ".", ",", "\n", " ">>)
             \o Join([k \in 1..K |-> row(R - K + k - 1)], C4_Sep))
    \o Chars(<<"]">>)

\* C4: a rank-2 view of shape (R, C), R, C >= 1, renders as "[" rows "]": each
\* printed row is the rank-1 rendering of that row, the printed rows are all
\* of them if R <= 6 and otherwise rows 0..2, the marker "...,\n " and rows
\* R-3..R-1; every printed row but the last is followed by ",\n ".
C4_Rank2Text ==
    (Rank = 2 /\ NoZeroAxis /\ Succeeded) => sink = C4_Text(shape[1], shape[2])

C4_Witness == Rank = 2 /\ shape[1] > 2 * K /\ shape[2] > 2 * K /\ Succeeded

----------------------------------------------------------------------------
(* C5 *)

\* C5: a failed sink write or formatter call, at any depth, is returned from
\* the top-level call; no write or formatter call follows the first failure;
\* what is in the sink stays, and it is a prefix of the text a run without
\* failure produces for the same view.
C5_FailFast ==
    /\ ~late
    /\ Done => (ret = "Err" <=> failed)
    /\ Done => LET text == format_array(<<>>) IN
               /\ IsPrefix(sink, text)
               /\ ret = "Ok" => sink = text

\* a formatter call inside format_1d_array two levels down failed, after text
\* had been written
C5_Witness ==
    /\ Rank = 3
    /\ Done
    /\ ret = "Err"
    /\ failed
    /\ Len(calls) >= 2
    /\ Len(calls) > Cardinality({p \in 1..Len(sink) : sink[p].t = flavor})

----------------------------------------------------------------------------
(* C6 *)

SuffixTags == {" shape=", ", strides=", ", layout=", ", const ndim=", ", dynamic ndim="}

SuffixPositions == {p \in 1..Len(sink) : sink[p].t \in SuffixTags}

C6_Suffix ==
    <<[t |-> " shape=", ix |-> shape],
      [t |-> ", strides=", ix |-> <<>>],
      [t |-> ", layout=", ix |-> <<>>],
      [t |-> IF ndimConst THEN ", const ndim=" ELSE ", dynamic ndim=", ix |-> <<Rank>>]>>

\* C6: Debug's output is format_array's body followed by the suffix
\* " shape=.., strides=.., layout=.." plus ", const ndim=N" for a statically
\* fixed rank or ", dynamic ndim=N" otherwise; the suffix is written once,
\* only after the whole body, and no part of it when the body fails; the five
\* other flavors write no suffix.
C6_DebugSuffix ==
    /\ (flavor = "Debug" /\ Succeeded) => sink = format_array(<<>>) \o C6_Suffix
    /\ (flavor # "Debug" /\ Succeeded) => sink = format_array(<<>>)
    /\ flavor # "Debug" => SuffixPositions = {}
    /\ SuffixPositions # {} =>
         /\ IsPrefix(format_array(<<>>), sink)
         /\ IsPrefix(SubSeq(sink, Len(format_array(<<>>)) + 1, Len(sink)), C6_Suffix)
    /\ (Done /\ ret = "Err" /\ ~IsPrefix(format_array(<<>>), sink)) => SuffixPositions = {}

C6_Witness ==
    /\ flavor = "Debug"
    /\ ~ndimConst
    /\ Rank = 2
    /\ NoZeroAxis
    /\ Succeeded
    /\ Cardinality(SuffixPositions) = 4

----------------------------------------------------------------------------
(* C7 *)

\* C7: on a rank-0 view the element formatter is invoked exactly once, on the
\* sole element, and nothing else is written: no bracket, separator, ellipsis.
C7_Scalar ==
    Rank = 0 =>
        /\ Len(calls) <= 1
        /\ IsPrefix(sink, <<ElemTok(<<>>)>>)
        /\ ~failed /\ Done => ret = "Ok"
        /\ Succeeded => (calls = << <<>> >> /\ sink = <<ElemTok(<<>>)>>)

C7_Witness == Rank = 0 /\ Succeeded /\ Len(sink) = 1

----------------------------------------------------------------------------
(* C8 *)

\* C8: for rank >= 3 and no zero-length axis, what follows a sub-view or a
\* sibling truncation marker at every level of rank >= 2 is ",\n " with
\* exactly one space, whatever the depth; ", " (and so "..., ") occurs only
\* inside the innermost brackets.
C8_FlatSeparators ==
    (Rank >= 3 /\ NoZeroAxis /\ Succeeded) =>
        \A p \in 1..Len(sink) :
            /\ At(p) = "," =>
                 IF DepthAt(sink, p) = Rank
                 THEN At(p + 1) = " " /\ At(p + 2) \notin {" ", "\n", "[", "]"}
                 ELSE /\ At(p + 1) = "\n"
                      /\ At(p + 2) = " "
                      /\ At(p + 3) \in {"[", "."}
                      /\ At(p - 1) \in {"]", "."}
            /\ At(p) = "\n" => At(p - 1) = ","
            /\ At(p) = " " => At(p - 1) \in {",", "\n"}
            /\ At(p) = "]" => At(p + 1) \in {"]", ",", "none"}
            /\ (At(p) = "." /\ At(p + 1) # ".") => At(p + 1) = ","

\* truncation at the outermost and at the middle level of a rank-3 view
C8_Witness ==
    /\ Rank = 3
    /\ NoZeroAxis
    /\ shape[2] > 2 * K
    /\ shape[3] >= 2
    /\ shape[1] >= 2
    /\ Succeeded

----------------------------------------------------------------------------
(* C9 *)

RECURSIVE C9_Count(_)
C9_Count(s) == IF s = <<>> THEN 1 ELSE Min(Head(s), 2 * K) * C9_Count(Tail(s))

RECURSIVE Power(_, _)
Power(b, n) == IF n = 0 THEN 1 ELSE b * Power(b, n - 1)

\* C9: for rank r >= 1 and no zero-length axis, a successful format_array
\* invokes the element formatter prod_i min(L_i, 6) <= 6^r times, on distinct
\* multi-indices in strictly increasing row-major order; the output holds that
\* many formatted elements, its brackets balance and nest at most r deep.
C9_BoundedCalls ==
    (Rank >= 1 /\ NoZeroAxis) =>
        /\ Len(calls) <= C9_Count(shape)
        /\ Done =>
             \A c \in 1..Len(calls) :
                 /\ Len(calls[c]) = Rank
                 /\ \A a \in 1..Rank : calls[c][a] < shape[a]
                 /\ c > 1 => LexLess(calls[c - 1], calls[c])
        /\ Succeeded =>
             /\ Len(calls) = C9_Count(shape)
             /\ Len(calls) <= Power(2 * K, Rank)
             /\ Cardinality({p \in 1..Len(sink) : sink[p].t = flavor}) = Len(calls)
             /\ DepthAt(sink, Len(sink)) = 0
             /\ \A p \in 1..Len(sink) : DepthAt(sink, p) \in 0..Rank
             /\ \E p \in 1..Len(sink) : DepthAt(sink, p) = Rank

C9_Witness ==
    /\ Rank = 2
    /\ shape[1] > 2 * K
    /\ shape[2] > 2 * K
    /\ Succeeded
    /\ Len(calls) = 4 * K * K

----------------------------------------------------------------------------
(* C10 *)

C10_Safe ==
    /\ fault = "none"
    /\ ~wrapped
    /\ \A k \in PlannedFrames :
         LET f == stack[k] IN
         /\ \A c \in 1..Len(f.cells) :
              f.cells[c].kind = "ElementIndex" => f.cells[c].i < AxisLen(f)
         /\ (limit >= 1 /\ AxisLen(f) >= 1) =>
              (f.cells # <<>> /\ f.cells[Len(f.cells)].kind = "ElementIndex")
         /\ f.pc = "sep" => f.cells # <<>>

\* C10 as stated: for every axis length and every limit >= 0 no index is out
\* of range and no usize operation overflows.
C10_AnyLimit == C10_Safe

\* C10 amended: for every axis length L >= 0 and every limit K >= 0 whose
\* double fits usize, every ElementIndex(i) has i < L, `length - limit` and
\* `n_to_be_printed - 1` never underflow, no index is out of range, and with
\* K >= 1 and L >= 1 the last cell is an ElementIndex.
C10_LimitFits == 2 * limit <= UsizeMax => C10_Safe

\* an empty axis handed to format_1d_array with a limit other than 3
C10_Witness ==
    /\ entry = "format_1d_array"
    /\ shape = <<0>>
    /\ limit = 0
    /\ Succeeded

====
